---- MODULE Spec2Model ----
(***************************************************************************)
(* Motion-Sketch: the frame/surface lifecycle of src/src/lib.rs.           *)
(*                                                                         *)
(* The program is the closure handed to event_loop.run (lib.rs 172-250)    *)
(* together with State::new / State::resize / State::render.  The window   *)
(* host (winit) is the environment: it invokes the closure once per event. *)
(* One iteration of the host's loop dispatches the window events that are  *)
(* pending, then the RedrawRequested of a window whose redraw was          *)
(* requested, then AboutToWait; control_flow.exit() only sets a flag that  *)
(* the host looks at when the iteration is over.                           *)
(***************************************************************************)
EXTENDS Integers, Sequences, FiniteSets, TLC

\* ----------------------------------------------------------------- bounds
\* Largest width/height of a physical size; 0 is always a possible dimension.
MaxDim == 2
\* Number of closure invocations (window events dispatched) explored.
MaxTicks == 4

Dims == 0..MaxDim
PhysicalSize == [width : Dims, height : Dims]

\* window_setup asks for an inner size of 1280x720 logical pixels, so the
\* physical size State::new reads is positive in both dimensions.
InitialSizes == {s \in PhysicalSize : s.width > 0 /\ s.height > 0}

\* Result<(), wgpu::SurfaceError> of surface.get_current_texture().
SurfaceErrors == {"Lost", "Outdated", "OutOfMemory", "Timeout"}
SurfaceResults == {"Ok"} \cup SurfaceErrors

\* The surface before any surface.configure call.
Unconfigured == [width |-> 0, height |-> 0]

\* What the closure is invoked with (Event::WindowEvent { event, window_id }).
WindowIds == {"window", "other"}
KeyEvents == [kind : {"KeyboardInput"}, key : {"Escape", "KeyA"},
              state : {"Pressed", "Released"}]
ResizedEvents == [kind : {"Resized"}, size : PhysicalSize]
QueuedEvents == [kind : {"CloseRequested", "Focused"}] \cup KeyEvents \cup ResizedEvents
RedrawRequested == [kind |-> "RedrawRequested"]

VARIABLES
    state,              \* State { surface, queue, config, size }
    surface_configured, \* run: let mut surface_configured
    exiting,            \* control_flow.exit() has been called
    redraw_requested,   \* window.request_redraw() is pending at the host
    phase,              \* position of the host inside its iteration
    running,            \* event_loop.run has not returned
    windowSize,         \* the window's current physical size
    lastValid,          \* size of the last Resized with both dimensions > 0
    lastEvent,          \* kind of the event of the last closure invocation
    lastResult,         \* what state.render() returned in that invocation
    seen,               \* every render result and exit trigger so far
    ticks,              \* closure invocations so far
    redraws,            \* RedrawRequested handled since the last Resized
    resizes,            \* Resized events handled: <<all, valid>>
    otherSeen,          \* an event other than Resized/RedrawRequested was dispatched
    frame,              \* State::render statement by statement (output, encoder)
    pacing,             \* run: last_frame_time and the clock of the pacing sleep
    caps                \* State::new: surface_caps.formats and surface_format

vars == <<state, surface_configured, exiting, redraw_requested, phase, running,
          windowSize, lastValid, lastEvent, lastResult, seen, ticks, redraws,
          resizes, otherSeen>>

\* The parts of the program that are followed in specifications of their own.
stepVars == <<frame, pacing, caps>>
allVars == <<vars, stepVars>>

\* ------------------------------------------------------------ State (impl)

\* Variant of State::new that also configures the surface it created.
StateNew_configures(inner_size) ==
    LET config == [width |-> inner_size.width, height |-> inner_size.height]
    IN  [ size    |-> inner_size,
          config  |-> config,
          surface |-> [configured |-> config, configures |-> 1, stale |-> FALSE,
                       acquires |-> 0, presents |-> 0, presented |-> Unconfigured],
          queue   |-> [submits |-> 0] ]

\* State::new: config.width/height are taken from window.inner_size(); no
\* call of surface.configure is made here.
StateNew(inner_size) ==
    [ size    |-> inner_size,
      config  |-> [width |-> inner_size.width, height |-> inner_size.height],
      surface |-> [configured |-> Unconfigured, configures |-> 0, stale |-> FALSE,
                   acquires |-> 0, presents |-> 0, presented |-> Unconfigured],
      queue   |-> [submits |-> 0] ]

\* self.surface.configure(&self.device, &self.config): the surface takes the
\* dimensions of the configuration it is handed and is usable again.
configure(surface, config) ==
    [surface EXCEPT !.configured = config,
                    !.configures = @ + 1,
                    !.stale = FALSE]

\* Variants of State::resize: the zero-size guard dropped, the guard written
\* with || for &&, and width/height swapped in the configuration.
resize_unguarded(self, new_size) ==
    LET config == [self.config EXCEPT !.width = new_size.width,
                                      !.height = new_size.height]
    IN  [self EXCEPT !.size = new_size,
                     !.config = config,
                     !.surface = configure(self.surface, config)]

resize_or(self, new_size) ==
    IF new_size.width > 0 \/ new_size.height > 0
    THEN resize_unguarded(self, new_size)
    ELSE self

resize_swapped(self, new_size) ==
    IF new_size.width > 0 /\ new_size.height > 0
    THEN LET config == [self.config EXCEPT !.width = new_size.height,
                                           !.height = new_size.width]
         IN  [self EXCEPT !.size = new_size,
                          !.config = config,
                          !.surface = configure(self.surface, config)]
    ELSE self

\* Further variants of State::resize: surface.configure called outside the
\* guard, and self.size not updated.
resize_always_configures(self, new_size) ==
    IF new_size.width > 0 /\ new_size.height > 0
    THEN resize_unguarded(self, new_size)
    ELSE [self EXCEPT !.surface = configure(self.surface, self.config)]

resize_keeps_size(self, new_size) ==
    IF new_size.width > 0 /\ new_size.height > 0
    THEN LET config == [self.config EXCEPT !.width = new_size.width,
                                           !.height = new_size.height]
         IN  [self EXCEPT !.config = config,
                          !.surface = configure(self.surface, config)]
    ELSE self

\* State::resize
resize(self, new_size) ==
    IF new_size.width > 0 /\ new_size.height > 0
    THEN LET config == [self.config EXCEPT !.width = new_size.width,
                                           !.height = new_size.height]
         IN  [self EXCEPT !.size = new_size,
                          !.config = config,
                          !.surface = configure(self.surface, config)]
    ELSE self

\* State::input
input(self, event) == FALSE

\* State::update
update(self) == self

\* State::render with `acquired` the outcome of surface.get_current_texture():
\* the `?` returns the error before anything is recorded, submitted or
\* presented; a frame that was acquired has the dimensions the surface was
\* last configured with.  Lost and Outdated leave the surface unusable until
\* it is configured again.  A surface that was never configured makes wgpu
\* raise a fatal error (a panic) instead of returning.
render(self, acquired) ==
    LET tried == [self EXCEPT !.surface.acquires = @ + 1]
    IN  IF self.surface.configures = 0
        THEN [state |-> tried, result |-> "Panic"]
        ELSE IF acquired = "Ok"
        THEN [state |-> [tried EXCEPT
                            !.queue.submits = @ + 1,
                            !.surface.presents = @ + 1,
                            !.surface.presented = self.surface.configured],
              result |-> "Ok"]
        ELSE [state |-> [tried EXCEPT
                            !.surface.stale = (acquired \in {"Lost", "Outdated"})],
              result |-> acquired]

\* --------------------------------------------- State::render, step by step

\* Calls of State::render followed statement by statement.
MaxCalls == 4

\* The statements of State::render in source order: get_current_texture()?,
\* the clear pass recorded into the encoder, queue.submit(encoder.finish()),
\* output.present().
RenderOrder_present_first == <<"acquire", "record", "present", "submit">>

RenderOrder == <<"acquire", "record", "submit", "present">>

\* No call of render in progress: no frame is held and no encoder exists.
FrameIdle ==
    [pc |-> 0, output |-> "none", image |-> "none", encoder |-> <<>>,
     log |-> <<>>, result |-> "None", shown |-> "none",
     calls |-> 0, failed |-> 0, submits |-> 0, presents |-> 0]

\* Ok(()) once the last statement has run.
Advance(f) ==
    IF f.pc + 1 = Len(RenderOrder)
    THEN [f EXCEPT !.pc = 0, !.result = "Ok", !.encoder = <<>>]
    ELSE [f EXCEPT !.pc = @ + 1]

\* let output = self.surface.get_current_texture()?;
AcquireStep(f, acquired) ==
    LET g == [f EXCEPT !.calls = @ + 1, !.log = <<"acquire">>, !.result = "None"]
    IN  IF acquired = "Ok"
        THEN Advance([g EXCEPT !.output = "held", !.image = "undefined"])
        ELSE [g EXCEPT !.pc = 0, !.result = acquired, !.failed = @ + 1]

\* create_view, create_command_encoder, begin_render_pass { LoadOp::Clear }
RecordStep(f) ==
    Advance([f EXCEPT !.encoder = Append(@, "clear"),
                      !.log = Append(@, "record")])

\* self.queue.submit(iter::once(encoder.finish())): the passes recorded so
\* far are executed on the frame's texture.
SubmitStep(f) ==
    Advance([f EXCEPT !.submits = @ + 1,
                      !.image = IF f.encoder # <<>> /\ f.output = "held"
                                THEN f.encoder[Len(f.encoder)] ELSE @,
                      !.log = Append(@, "submit")])

\* Variant of the present statement that keeps the SurfaceTexture.
PresentStep_keeps_output(f) ==
    Advance([f EXCEPT !.presents = @ + 1,
                      !.shown = f.image,
                      !.log = Append(@, "present")])

\* output.present(): the frame is consumed and its image goes to the screen.
PresentStep(f) ==
    Advance([f EXCEPT !.presents = @ + 1,
                      !.shown = f.image,
                      !.output = "none",
                      !.log = Append(@, "present")])

NextStatement == RenderOrder[frame.pc + 1]

RenderAcquire ==
    /\ NextStatement = "acquire"
    /\ frame.calls < MaxCalls
    /\ \E acquired \in SurfaceResults : frame' = AcquireStep(frame, acquired)
    /\ UNCHANGED <<vars, pacing, caps>>

RenderRecord ==
    /\ NextStatement = "record"
    /\ frame' = RecordStep(frame)
    /\ UNCHANGED <<vars, pacing, caps>>

RenderSubmit ==
    /\ NextStatement = "submit"
    /\ frame' = SubmitStep(frame)
    /\ UNCHANGED <<vars, pacing, caps>>

RenderPresent ==
    /\ NextStatement = "present"
    /\ frame' = PresentStep(frame)
    /\ UNCHANGED <<vars, pacing, caps>>

NextRender ==
    \/ RenderAcquire
    \/ RenderRecord
    \/ RenderSubmit
    \/ RenderPresent

\* ------------------------------------------------------- the closure of run

\* The context the closure captures and what one invocation reports.
Ctx(st, sc, ex, rr, res) ==
    [state |-> st, surface_configured |-> sc, exiting |-> ex,
     redraw_requested |-> rr, result |-> res]

\* Variants of the match on state.render(): Lost/Outdated not reconfiguring,
\* OutOfMemory not exiting, Timeout handled like Lost.
OnRenderResult_ignore_lost(c, r) ==
    IF r.result = "OutOfMemory"
    THEN [c EXCEPT !.state = r.state, !.exiting = TRUE, !.result = r.result]
    ELSE [c EXCEPT !.state = r.state, !.result = r.result]

OnRenderResult_oom_continues(c, r) ==
    IF r.result \in {"Lost", "Outdated"}
    THEN [c EXCEPT !.state = resize(r.state, r.state.size), !.result = r.result]
    ELSE [c EXCEPT !.state = r.state, !.result = r.result]

OnRenderResult_timeout_reconfigures(c, r) ==
    CASE r.result \in {"Lost", "Outdated", "Timeout"} ->
            [c EXCEPT !.state = resize(r.state, r.state.size), !.result = r.result]
      [] r.result = "OutOfMemory" ->
            [c EXCEPT !.state = r.state, !.exiting = TRUE, !.result = r.result]
      [] OTHER ->
            [c EXCEPT !.state = r.state, !.result = r.result]

\* match state.render() { ... } (lib.rs 226-242)
OnRenderResult(c, r) ==
    CASE r.result = "Ok" ->
            [c EXCEPT !.state = r.state, !.result = r.result]
      [] r.result \in {"Lost", "Outdated"} ->
            [c EXCEPT !.state = resize(r.state, r.state.size), !.result = r.result]
      [] r.result = "OutOfMemory" ->
            [c EXCEPT !.state = r.state, !.exiting = TRUE, !.result = r.result]
      [] r.result = "Timeout" ->
            [c EXCEPT !.state = r.state, !.result = r.result]
      [] OTHER ->
            [c EXCEPT !.state = r.state, !.result = r.result]

\* WindowEvent::RedrawRequested => { ... } (lib.rs 218-243)
OnRedrawRequested(c, acquired) ==
    LET c1 == [c EXCEPT !.redraw_requested = TRUE]
    IN  IF ~c1.surface_configured
        THEN c1
        ELSE OnRenderResult(c1, render(update(c1.state), acquired))

\* Variants of the Resized arm: the flag not set, state.resize not called.
OnResized_noflag(c, physical_size) ==
    [c EXCEPT !.state = resize(c.state, physical_size)]

OnResized_noresize(c, physical_size) ==
    [c EXCEPT !.surface_configured = TRUE]

\* WindowEvent::Resized(physical_size) => { ... } (lib.rs 213-217)
OnResized(c, physical_size) ==
    [c EXCEPT !.surface_configured = TRUE,
              !.state = resize(c.state, physical_size)]

\* Variant of the exit pattern: the key's ElementState not matched.
IsExitEvent_any_state(event) ==
    \/ event.kind = "CloseRequested"
    \/ /\ event.kind = "KeyboardInput"
       /\ event.key = "Escape"

\* CloseRequested | KeyboardInput { Pressed, Escape } => control_flow.exit()
IsExitEvent(event) ==
    \/ event.kind = "CloseRequested"
    \/ /\ event.kind = "KeyboardInput"
       /\ event.state = "Pressed"
       /\ event.key = "Escape"

OnExitEvent(c) == [c EXCEPT !.exiting = TRUE]

\* match event { Event::WindowEvent { .. } if window_id == state.window().id()
\*               => if !state.input(event) { match event { ... } }, _ => {} }
Callback(c, window_id, event, acquired) ==
    LET c0 == [c EXCEPT !.result = "None"]
    IN  IF window_id # "window" \/ input(c0.state, event)
        THEN c0
        ELSE CASE IsExitEvent(event) -> OnExitEvent(c0)
               [] event.kind = "Resized" -> OnResized(c0, event.size)
               [] event.kind = "RedrawRequested" -> OnRedrawRequested(c0, acquired)
               [] OTHER -> c0

\* ------------------------------------------- the pacing sleep of the closure

\* Duration::from_secs_f64(1.0 / target_fps): 100 microseconds, counted in
\* units of 25 microseconds.
FrameDuration == 4
\* Last instant of the clock that is explored.
MaxClock == 10
\* std::thread::sleep may return later than asked: longest overshoot explored.
MaxOvershoot == 1

\* let mut last_frame_time = Instant::now(): no invocation yet.
PacingStart ==
    [clock |-> 0, last_frame_time |-> 0, invocations |-> 0,
     slept |-> 0, dispatched |-> 0, previous |-> 0]

\* The sleep the closure asks for (lib.rs 174-180).
SleepDuration(frame_time) ==
    IF frame_time < FrameDuration THEN FrameDuration - frame_time ELSE 0

\* Top of the closure (lib.rs 173-182): now is read before the sleep and is
\* what last_frame_time becomes after it; the event is dispatched when the
\* sleep is over.
Pace(p, overshoot) ==
    LET now == p.clock
        frame_time == now - p.last_frame_time
        sleep_duration == SleepDuration(frame_time)
        woken == IF sleep_duration > 0 THEN now + sleep_duration + overshoot
                 ELSE now
    IN  [p EXCEPT !.clock = woken,
                  !.last_frame_time = now,
                  !.invocations = @ + 1,
                  !.slept = sleep_duration,
                  !.previous = p.dispatched,
                  !.dispatched = woken]

\* The host invokes the closure with the next event.
PaceCallback ==
    /\ \E overshoot \in 0..MaxOvershoot :
          /\ pacing' = Pace(pacing, overshoot)
          /\ pacing'.clock <= MaxClock
    /\ UNCHANGED <<vars, frame, caps>>

\* Time passes while the event is handled or the host waits for the next one.
Elapse ==
    /\ pacing.clock < MaxClock
    /\ pacing' = [pacing EXCEPT !.clock = @ + 1]
    /\ UNCHANGED <<vars, frame, caps>>

NextPacing ==
    \/ PaceCallback
    \/ Elapse

\* ------------------------------------------ the surface format of State::new

\* Longest list of formats offered by the surface that is explored.
MaxFormats == 3

TextureFormats == {"Bgra8Unorm", "Bgra8UnormSrgb", "Rgba8Unorm", "Rgba8UnormSrgb"}

\* wgpu::TextureFormat::is_srgb
is_srgb(f) == f \in {"Bgra8UnormSrgb", "Rgba8UnormSrgb"}

\* surface_caps.formats: the surface is compatible with the adapter that was
\* requested for it, so at least one format is offered.
FormatLists == UNION {[1..n -> TextureFormats] : n \in 1..MaxFormats}

\* surface.get_capabilities(&adapter), before surface_format is chosen.
CapsOffered(formats) == [formats |-> formats, surface_format |-> "None"]

\* formats.iter().find(|f| f.is_srgb()) from position i on: <<f>> for Some(f)
\* and <<>> for None.
RECURSIVE Find(_, _)
Find(formats, i) ==
    IF i > Len(formats) THEN <<>>
    ELSE IF is_srgb(formats[i]) THEN <<formats[i]>>
    ELSE Find(formats, i + 1)

\* Variant of the selection that keeps the last sRGB format it meets.
RECURSIVE FindLast(_, _)
FindLast(formats, i) ==
    IF i < 1 THEN <<>>
    ELSE IF is_srgb(formats[i]) THEN <<formats[i]>>
    ELSE FindLast(formats, i - 1)

SelectFormat_last_srgb(formats) ==
    LET found == FindLast(formats, Len(formats))
    IN  IF found # <<>> THEN found[1] ELSE formats[1]

\* .find(..).copied().unwrap_or(surface_caps.formats[0])
SelectFormat(formats) ==
    LET found == Find(formats, 1)
    IN  IF found # <<>> THEN found[1] ELSE formats[1]

\* let surface_format = ...; it becomes config.format.
ChooseSurfaceFormat(c) ==
    [c EXCEPT !.surface_format = SelectFormat(c.formats)]

\* ------------------------------------------------------------- state machine

LoopInit ==
    /\ \E inner_size \in InitialSizes :
          /\ state = StateNew(inner_size)
          /\ windowSize = inner_size
          /\ lastValid = inner_size
    /\ surface_configured = FALSE
    /\ exiting = FALSE
    /\ redraw_requested = FALSE
    /\ phase = "events"
    /\ running = TRUE
    /\ lastEvent = "None"
    /\ lastResult = "None"
    /\ seen = {}
    /\ ticks = 0
    /\ redraws = 0
    /\ resizes = <<0, 0>>
    /\ otherSeen = FALSE

Init ==
    /\ LoopInit
    /\ frame = FrameIdle
    /\ pacing = PacingStart
    /\ caps = ChooseSurfaceFormat(CapsOffered(<<"Bgra8UnormSrgb">>))

Current == Ctx(state, surface_configured, exiting, redraw_requested, "None")

\* What the host handed to the closure, as recorded in lastEvent: the kind of
\* the event, with a press of Escape and events of other windows told apart.
EventTag(window_id, event) ==
    IF window_id # "window" THEN "Foreign"
    ELSE IF event.kind = "KeyboardInput"
    THEN IF event.key = "Escape" /\ event.state = "Pressed"
         THEN "EscapePressed" ELSE "KeyboardInput"
    ELSE event.kind

\* One invocation of the closure and what it leaves behind.
Invoke(window_id, event, acquired) ==
    LET c == Callback(Current, window_id, event, acquired)
    IN  /\ state' = c.state
        /\ surface_configured' = c.surface_configured
        /\ exiting' = c.exiting
        /\ redraw_requested' = c.redraw_requested
        /\ lastResult' = c.result
        /\ lastEvent' = EventTag(window_id, event)
        /\ running' = (c.result # "Panic")
        /\ seen' = seen \cup (IF c.result = "None" THEN {} ELSE {c.result})
                        \cup (IF window_id = "window" /\ IsExitEvent(event)
                              THEN {"Exit"} ELSE {})
        /\ ticks' = ticks + 1

\* The host dispatches a pending window event (close, key, resize, focus).
DispatchWindowEvent ==
    /\ running /\ phase = "events" /\ ticks < MaxTicks
    /\ \E window_id \in WindowIds, event \in QueuedEvents :
          /\ Invoke(window_id, event, "Ok")
          /\ IF window_id = "window" /\ event.kind = "Resized"
             THEN /\ windowSize' = event.size
                  /\ lastValid' = IF event.size.width > 0 /\ event.size.height > 0
                                  THEN event.size ELSE lastValid
                  /\ redraws' = 0
                  /\ resizes' = <<resizes[1] + 1,
                                  resizes[2] + (IF event.size.width > 0
                                                   /\ event.size.height > 0
                                                THEN 1 ELSE 0)>>
                  /\ UNCHANGED otherSeen
             ELSE /\ otherSeen' = TRUE
                  /\ UNCHANGED <<windowSize, lastValid, redraws, resizes>>
    /\ UNCHANGED <<phase, stepVars>>

\* The platform invalidates the window (it is mapped or exposed): a redraw
\* request that the program did not make.
Expose ==
    /\ running /\ phase = "events" /\ ~redraw_requested
    /\ redraw_requested' = TRUE
    /\ UNCHANGED <<state, surface_configured, exiting, phase, running, windowSize,
                   lastValid, lastEvent, lastResult, seen, ticks, redraws,
                   resizes, otherSeen, stepVars>>

\* The pending window events are drained: the redraw requests come next.
EventsCleared ==
    /\ running /\ phase = "events"
    /\ phase' = "redraw"
    /\ UNCHANGED <<state, surface_configured, exiting, redraw_requested, running,
                   windowSize, lastValid, lastEvent, lastResult, seen, ticks,
                   redraws, resizes, otherSeen, stepVars>>

\* The host takes the window's redraw request and dispatches RedrawRequested;
\* a request made by the handler itself is for the next iteration.
DispatchRedrawRequested ==
    /\ running /\ phase = "redraw" /\ redraw_requested /\ ticks < MaxTicks
    /\ \E acquired \in SurfaceResults :
          Invoke("window", RedrawRequested, acquired)
    /\ redraws' = redraws + 1
    /\ phase' = "wait"
    /\ UNCHANGED <<windowSize, lastValid, resizes, otherSeen, stepVars>>

\* End of the iteration (AboutToWait, which the closure ignores): the host
\* leaves run() if exit was requested and starts the next iteration otherwise.
AboutToWait ==
    /\ running
    /\ \/ phase = "wait"
       \/ phase = "redraw" /\ ~redraw_requested
    /\ IF exiting
       THEN running' = FALSE /\ phase' = "exited"
       ELSE running' = TRUE /\ phase' = "events"
    /\ UNCHANGED <<state, surface_configured, exiting, redraw_requested,
                   windowSize, lastValid, lastEvent, lastResult, seen, ticks,
                   redraws, resizes, otherSeen, stepVars>>

Next ==
    \/ DispatchWindowEvent
    \/ Expose
    \/ EventsCleared
    \/ DispatchRedrawRequested
    \/ AboutToWait

Spec == Init /\ [][Next]_allVars

SpecRender == Init /\ [][NextRender]_allVars

SpecPacing == Init /\ [][NextPacing]_allVars

\* State::new at the point where the capabilities of the surface are known.
InitFormat ==
    /\ LoopInit
    /\ frame = FrameIdle
    /\ pacing = PacingStart
    /\ \E formats \in FormatLists : caps = CapsOffered(formats)

SelectSurfaceFormat ==
    /\ caps.surface_format = "None"
    /\ caps' = ChooseSurfaceFormat(caps)
    /\ UNCHANGED <<vars, frame, pacing>>

NextFormat == SelectSurfaceFormat

SpecFormat == InitFormat /\ [][NextFormat]_allVars

TypeOK ==
    /\ state.size \in PhysicalSize
    /\ surface_configured \in BOOLEAN
    /\ exiting \in BOOLEAN
    /\ redraw_requested \in BOOLEAN
    /\ phase \in {"events", "redraw", "wait", "exited"}
    /\ running \in BOOLEAN
    /\ ticks \in 0..MaxTicks

\* ------------------------------------------------------------------- claims

Positive(size) == size.width > 0 /\ size.height > 0
Returned == lastResult \in SurfaceResults
Dispatched == ticks' = ticks + 1

\* C1: after any sequence of Resized events the configuration's (width,
\* height) is the size of the most recent Resized event with both dimensions
\* > 0, or the initial size if there was none; a Resized event with a zero
\* dimension therefore never changes it.
C1_ConfigIsLastValidSize ==
    /\ state.config.width = lastValid.width
    /\ state.config.height = lastValid.height

C1_Witness ==
    /\ lastEvent = "Resized"
    /\ ~Positive(windowSize)
    /\ resizes[2] >= 1
    /\ state.config = lastValid

\* C2: a render that returned Lost or Outdated is followed, in the same tick,
\* by a surface.configure call with the last known size, so that no later
\* render finds the surface still lost or outdated.
C2_LostIsReconfiguredInTick ==
    /\ ~state.surface.stale
    /\ lastResult \in {"Lost", "Outdated"} =>
          /\ state.surface.configures >= 2
          /\ state.surface.configured = state.config
          /\ state.config.width = state.size.width
          /\ state.config.height = state.size.height

C2_Witness ==
    /\ lastResult \in {"Lost", "Outdated"}
    /\ state.surface.configures = 2
    /\ resizes[1] > resizes[2]

\* C3: once render has returned OutOfMemory, exit has been requested, the
\* next step of the host ends the loop, and render is not called again even
\* though a redraw request is pending.
C3_OutOfMemoryEndsLoop ==
    [][ /\ ("OutOfMemory" \in seen') => exiting'
        /\ ("OutOfMemory" \in seen) =>
              /\ state'.surface.acquires = state.surface.acquires
              /\ ticks' = ticks
              /\ ~running' ]_vars

C3_Witness ==
    /\ "OutOfMemory" \in seen
    /\ ~running
    /\ redraw_requested

\* C4: once CloseRequested or an Escape press has been handled, render is
\* never called again (stated for the calls that return, on a surface that
\* has been configured).
C4_NoRenderAfterClose ==
    [][ ("Exit" \in seen /\ state.surface.configures > 0) =>
            state'.surface.acquires = state.surface.acquires ]_vars

\* C5 as stated: every render call runs with a configuration equal to the
\* window's current physical size (the size of the most recent Resized,
\* zero-dimension ones included); stated for the calls that return.
C5_RenderSeesWindowSize ==
    Returned => /\ state.config.width = windowSize.width
                /\ state.config.height = windowSize.height

\* C5 amended: every render call made by the RedrawRequested handler runs
\* with a configuration equal to the size of the most recent Resized event
\* with both dimensions > 0, or the initial window size if there was none.
C5_RenderSeesLastValidSize ==
    [][ (Dispatched /\ lastResult' # "None") =>
            /\ state.config = lastValid
            /\ state'.config = lastValid ]_vars

C5_Witness ==
    /\ lastResult = "Ok"
    /\ ~Positive(windowSize)
    /\ state.config = lastValid
    /\ state.surface.presented = state.config

\* C6: in every reachable state, from State::new onwards, the
\* configuration's width and height are both > 0.
C6_ConfigPositive ==
    state.config.width > 0 /\ state.config.height > 0

C6_Witness ==
    /\ lastEvent = "Resized"
    /\ windowSize.width = 0
    /\ windowSize.height > 0
    /\ state.config.width > 0

C9_FrameAfterResizeHasItsSize ==
    [][ ( /\ lastEvent = "Resized"
          /\ Positive(windowSize)
          /\ Dispatched
          /\ lastEvent' = "RedrawRequested"
          /\ lastResult' = "Ok" ) =>
            /\ state'.surface.presents = state.surface.presents + 1
            /\ state'.surface.presented.width = windowSize.width
            /\ state'.surface.presented.height = windowSize.height ]_vars

C9_Witness ==
    /\ lastEvent = "RedrawRequested"
    /\ lastResult = "Ok"
    /\ redraws = 1
    /\ resizes[2] >= 1
    /\ windowSize.width # windowSize.height
    /\ state.surface.presented = [width |-> windowSize.width,
                                  height |-> windowSize.height]

\* C10: a tick whose render returned Timeout makes exactly one acquisition
\* attempt, presents and submits nothing, leaves size, configuration,
\* surface_configured and the exit flag as they were, makes no
\* surface.configure call and has requested the next redraw; and every
\* RedrawRequested tick handled while surface_configured holds makes a fresh
\* acquisition attempt.
C10_TimeoutSkipsFrame ==
    [][ /\ (Dispatched /\ lastResult' = "Timeout") =>
              /\ state'.surface.acquires = state.surface.acquires + 1
              /\ state'.surface.presents = state.surface.presents
              /\ state'.queue.submits = state.queue.submits
              /\ state'.surface.configures = state.surface.configures
              /\ state'.surface.configured = state.surface.configured
              /\ state'.size = state.size
              /\ state'.config = state.config
              /\ surface_configured' /\ surface_configured
              /\ exiting' = exiting
              /\ redraw_requested'
        /\ (Dispatched /\ lastEvent' = "RedrawRequested" /\ surface_configured) =>
              /\ lastResult' # "None"
              /\ state'.surface.acquires = state.surface.acquires + 1 ]_vars

C10_Witness ==
    /\ "Timeout" \in seen
    /\ lastResult = "Ok"
    /\ ~exiting
    /\ state.surface.acquires = 2
    /\ state.surface.presents = 1

\* C11: a Resized event with a zero width or height leaves State.size and the
\* configuration unchanged and issues no surface.configure call; a Resized
\* event with both dimensions > 0 sets size and configuration to that size
\* and issues exactly one surface.configure call, with that configuration.
C11_ResizedEffect ==
    [][ (Dispatched /\ lastEvent' = "Resized") =>
            IF Positive(windowSize')
            THEN /\ state'.size = windowSize'
                 /\ state'.config = windowSize'
                 /\ state'.surface.configured = windowSize'
                 /\ state'.surface.configures = state.surface.configures + 1
            ELSE /\ state'.size = state.size
                 /\ state'.config = state.config
                 /\ state'.surface = state.surface ]_vars

C11_Witness ==
    /\ resizes = <<2, 1>>
    /\ lastEvent = "Resized"
    /\ Positive(windowSize)
    /\ state.config = windowSize
    /\ state.surface.configures = 1

\* C12: exit is requested only by a CloseRequested event, a press of Escape
\* or an OutOfMemory render result: no other event (Resized, another key, a
\* key release, an event of another window) and no other render outcome
\* requests it.
C12_ExitOnlyByTriggers ==
    [][ (exiting' /\ ~exiting) =>
            /\ Dispatched
            /\ \/ lastEvent' \in {"CloseRequested", "EscapePressed"}
               \/ lastEvent' = "RedrawRequested" /\ lastResult' = "OutOfMemory" ]_vars

C12_Witness ==
    /\ exiting
    /\ lastEvent = "EscapePressed"
    /\ seen = {"Ok", "Timeout", "Exit"}

\* C13: in every reachable state surface_configured implies that at least
\* one surface.configure call has been made, so that render is never called
\* on a surface that was never configured.
C13_FlagImpliesConfigured ==
    /\ surface_configured => state.surface.configures >= 1
    /\ state.surface.acquires > 0 => state.surface.configures >= 1

\* C15: after a RedrawRequested tick a redraw is requested again, and as long
\* as exit has not been requested the loop is still running to deliver it.
C15_RedrawTicksKeepComing ==
    (lastEvent = "RedrawRequested" /\ ~exiting) =>
        /\ redraw_requested
        /\ running

\* C16: State.size equals (config.width, config.height) in every reachable
\* state, and the state.resize(state.size) of the Lost/Outdated recovery
\* re-applies the dimensions the configuration already has.
C16_SizeMirrorsConfig ==
    /\ [](/\ state.size.width = state.config.width
          /\ state.size.height = state.config.height)
    /\ [][ (Dispatched /\ lastResult' \in {"Lost", "Outdated"}) =>
              /\ state'.config = state.config
              /\ state'.size = state.size
              /\ state'.surface.configured = state.surface.configured ]_vars

C16_Witness ==
    /\ lastResult \in {"Lost", "Outdated"}
    /\ resizes = <<2, 2>>
    /\ state.size = windowSize
    /\ state.surface.configures = 3

\* C14: a call of render runs acquire, record, submit, present in this order;
\* a call that succeeds submits one command buffer (holding the clear pass)
\* and presents the acquired frame once; a call whose acquisition fails
\* submits and presents nothing; no frame is held when render has returned.
C14_RenderCycle ==
    /\ frame.pc = 0 =>
          /\ frame.output = "none"
          /\ frame.submits = frame.calls - frame.failed
          /\ frame.presents = frame.calls - frame.failed
    /\ (frame.pc = 0 /\ frame.result = "Ok") =>
          /\ frame.log = <<"acquire", "record", "submit", "present">>
          /\ frame.shown = "clear"
    /\ (frame.pc = 0 /\ frame.result \in SurfaceErrors) =>
          frame.log = <<"acquire">>
    /\ frame.presents <= frame.submits
    /\ frame.submits <= frame.presents + 1

C14_Witness ==
    /\ frame.pc = 0
    /\ frame.calls = 3
    /\ frame.failed = 1
    /\ frame.result = "Ok"
    /\ frame.presents = 2

\* C17: the instants at which two consecutive invocations of the closure
\* finish their pacing sleep are at least frame_duration apart, and the sleep
\* asked for is at most frame_duration.
C17_DispatchesAreFrameApart ==
    /\ pacing.invocations >= 2 =>
          pacing.dispatched - pacing.previous >= FrameDuration
    /\ pacing.slept <= FrameDuration

\* C18: for every non-empty list of offered formats, State::new selects the
\* first format of the list that is sRGB, and the first format of the list
\* when none is sRGB.
C18_FirstSrgbElseFirst ==
    caps.surface_format # "None" =>
        LET srgb == {i \in 1..Len(caps.formats) : is_srgb(caps.formats[i])}
        IN  IF srgb # {}
            THEN \E i \in srgb :
                    /\ \A j \in srgb : i <= j
                    /\ caps.surface_format = caps.formats[i]
            ELSE caps.surface_format = caps.formats[1]

C18_Witness ==
    /\ caps.formats = <<"Bgra8Unorm", "Rgba8UnormSrgb", "Bgra8UnormSrgb">>
    /\ caps.surface_format = "Rgba8UnormSrgb"

====
